---- MODULE Spec2Model ----
(***************************************************************************)
(* Model of ChatClient (src/ChatClient.py): the configuration resolver     *)
(* (__init__, _load_config_from_file, _load_config_from_env,               *)
(* _load_models_from_api) and the conversation session (set_model_by_id,   *)
(* chat, stream_chat, json_chat, chat_cleanup, append_history, ...).       *)
(*                                                                         *)
(* Python values are tagged records [t, v]: a str is [t |-> "str", v |->   *)
(* its characters], None is [t |-> "None", v |-> <<>>].  An Optional       *)
(* attribute (selected_model, client) is a sequence of length 0 or 1.      *)
(* The dict self.config is the sequence of its values in insertion order;  *)
(* the key of a value is its id field (line 87 stores under                *)
(* model_config.id).                                                       *)
(***************************************************************************)
EXTENDS Integers, Sequences, FiniteSets, TLC

\* ------------------------------------------------------------------ bounds
MaxHistory == 3
MaxModels == 4

\* ---------------------------------------------------------- Python values
None == [t |-> "None", v |-> <<>>]
Str(chars) == [t |-> "str", v |-> chars]
PyInt(n) == [t |-> "int", v |-> n]
PyDict(items) == [t |-> "dict", v |-> items]
PyList(items) == [t |-> "list", v |-> items]
EmptyDict == PyDict(<<>>)

Message(role, content) == [role |-> role, content |-> content]

ModelConfig(name, id, server, url, api_key) ==
    [name |-> name, id |-> id, server |-> server, url |-> url, api_key |-> api_key]

OpenAI(api_key, base_url) == [api_key |-> api_key, base_url |-> base_url]

\* ------------------------------------------------------------- json.loads
\* json.loads on the characters below: objects, arrays, strings of plain
\* letters, non-negative integers, blanks between tokens.
Digits == {"0", "1", "2", "3", "4", "5", "6", "7", "8", "9"}
DigitVal(c) ==
    CASE c = "0" -> 0 [] c = "1" -> 1 [] c = "2" -> 2 [] c = "3" -> 3
      [] c = "4" -> 4 [] c = "5" -> 5 [] c = "6" -> 6 [] c = "7" -> 7
      [] c = "8" -> 8 [] c = "9" -> 9
Quote == "\""
ScanFail == [ok |-> FALSE, val |-> None, end |-> 0]
ScanOk(val, end) == [ok |-> TRUE, val |-> val, end |-> end]
At(s, i) == IF i >= 1 /\ i <= Len(s) THEN s[i] ELSE "EOF"

RECURSIVE skip_ws(_, _)
skip_ws(s, i) == IF At(s, i) = " " THEN skip_ws(s, i + 1) ELSE i

\* i is the index after the opening quote
RECURSIVE scan_string(_, _, _)
scan_string(s, i, acc) ==
    IF At(s, i) = "EOF" THEN ScanFail
    ELSE IF s[i] = Quote THEN ScanOk(Str(acc), i + 1)
    ELSE scan_string(s, i + 1, Append(acc, s[i]))

RECURSIVE scan_digits(_, _, _)
scan_digits(s, i, n) ==
    IF At(s, i) \in Digits THEN scan_digits(s, i + 1, 10 * n + DigitVal(s[i]))
    ELSE ScanOk(PyInt(n), i)

scan_number(s, i) ==
    IF s[i] = "0" THEN ScanOk(PyInt(0), i + 1) ELSE scan_digits(s, i, 0)

\* dict[key] = value on the item list of a dict under construction
DictPut(items, key, val) ==
    IF \E k \in 1..Len(items) : items[k][1] = key
    THEN [k \in 1..Len(items) |-> IF items[k][1] = key THEN <<key, val>> ELSE items[k]]
    ELSE Append(items, <<key, val>>)

RECURSIVE scan_value(_, _), scan_members(_, _, _), scan_elements(_, _, _)
scan_value(s, i) ==
    LET c == At(s, i) IN
    IF c = Quote THEN scan_string(s, i + 1, <<>>)
    ELSE IF c = "{" THEN
        LET j == skip_ws(s, i + 1) IN
        IF At(s, j) = "}" THEN ScanOk(EmptyDict, j + 1) ELSE scan_members(s, j, <<>>)
    ELSE IF c = "[" THEN
        LET j == skip_ws(s, i + 1) IN
        IF At(s, j) = "]" THEN ScanOk(PyList(<<>>), j + 1) ELSE scan_elements(s, j, <<>>)
    ELSE IF c \in Digits THEN scan_number(s, i)
    ELSE ScanFail

scan_members(s, j, items) ==
    IF At(s, j) # Quote THEN ScanFail
    ELSE
      LET key == scan_string(s, j + 1, <<>>) IN
      IF ~key.ok THEN ScanFail
      ELSE
        LET k == skip_ws(s, key.end) IN
        IF At(s, k) # ":" THEN ScanFail
        ELSE
          LET val == scan_value(s, skip_ws(s, k + 1)) IN
          IF ~val.ok THEN ScanFail
          ELSE
            LET m == skip_ws(s, val.end)
                put == DictPut(items, key.val.v, val.val)
            IN IF At(s, m) = "}" THEN ScanOk(PyDict(put), m + 1)
               ELSE IF At(s, m) = "," THEN scan_members(s, skip_ws(s, m + 1), put)
               ELSE ScanFail

scan_elements(s, j, items) ==
    LET val == scan_value(s, j) IN
    IF ~val.ok THEN ScanFail
    ELSE
      LET m == skip_ws(s, val.end)
          put == Append(items, val.val)
      IN IF At(s, m) = "]" THEN ScanOk(PyList(put), m + 1)
         ELSE IF At(s, m) = "," THEN scan_elements(s, skip_ws(s, m + 1), put)
         ELSE ScanFail

\* json.loads(text): [raised |-> "" | "JSONDecodeError" | "TypeError", val]
json_loads(x) ==
    IF x.t # "str" THEN [raised |-> "TypeError", val |-> None]
    ELSE
      LET r == scan_value(x.v, skip_ws(x.v, 1)) IN
      IF r.ok /\ skip_ws(x.v, r.end) = Len(x.v) + 1
      THEN [raised |-> "", val |-> r.val]
      ELSE [raised |-> "JSONDecodeError", val |-> None]


\* ------------------------------------------------------------------ inputs
hi == <<"h", "i">>
yo == <<"y", "o">>
Messages == {Str(hi)}
Prompts == {Str(yo)}
Roles == {"assistant", "system"}

\* reply texts of the backend: {"a":1}, the unterminated {"a":1 and a
\* completion whose message.content is None
TxtObj == <<"{", Quote, "a", Quote, ":", "1", "}">>
TxtOpen == <<"{", Quote, "a", Quote, ":", "1">>
ReplyTexts == {TxtObj, TxtOpen}
Replies == {Str(x) : x \in ReplyTexts} \cup {None}

\* outcome of client.chat.completions.create(...) with stream=False
ChatOutcomes ==
    {[kind |-> "ok", exc |-> "", content |-> r] : r \in Replies}
    \cup {[kind |-> "raise", exc |-> e, content |-> None] : e \in {"APIError", "JSONDecodeError"}}
    \cup {[kind |-> "no_choices", exc |-> "IndexError", content |-> None]}

\* outcome of create(..., stream=True): the call raises (start = FALSE) or
\* returns a stream of delta.content values that ends or raises (fails)
\* after the listed chunks
Chunkings == {<<>>, <<Str(<<"o">>), None>>}
StreamOutcomes ==
    {[start |-> FALSE, chunks |-> <<>>, fails |-> FALSE]}
    \cup {[start |-> TRUE, chunks |-> c, fails |-> f] : c \in Chunkings, f \in BOOLEAN}

\* servers of the configuration file, and the documents a path may hold
S1 == [api_key |-> "k1", api_url |-> "u1"]
S2 == [api_key |-> "k2", api_url |-> "u2"]
Files ==
    {[state |-> "missing", servers |-> <<>>], [state |-> "malformed", servers |-> <<>>]}
    \cup {[state |-> "ok", servers |-> s] : s \in {<<>>, <<S1>>, <<S1, S2>>}}

\* os.getenv("API_KEY"), os.getenv("BASE_URL"); "" stands for unset or empty
Envs == [API_KEY : {"", "k1"}, BASE_URL : {"", "u1"}]

\* client.models.list(): the models returned, then the end of the listing
\* or (fails) an exception
Ma == [id |-> "gpt-a", owned_by |-> "o1"]
Mb == [id |-> "gpt-b", owned_by |-> "o2"]
Listings == {<<>>, <<Ma>>, <<Ma, Mb>>}
ListOutcomes == [models : Listings, fails : BOOLEAN]

\* argument of set_model_by_id: an int or a str
IntId(n) == [t |-> "int", n |-> n, s |-> ""]
NameId(s) == [t |-> "str", n |-> 0, s |-> s]
Idents == {IntId(n) : n \in 0..(MaxModels + 1)} \cup {NameId(s) : s \in {"gpt-a", "gpt-b", "nope"}}

\* ------------------------------------------------------------------- state
VARIABLES
    status,                \* "new", "ready", "exited" (exit(1)), "raised" (__init__ raised)
    config,                \* self.config
    conversation_history,  \* self.conversation_history
    selected_model,        \* self.selected_model
    client,                \* self.client
    gen,                   \* the generator returned by the last stream_chat call
    call,                  \* the operation of the last step
    ret,                   \* what it returned, raised and printed
    request,               \* the chat-completion request it issued, if any
    discovered             \* history: the models returned by the listings so far

vars == <<status, config, conversation_history, selected_model, client, gen,
          call, ret, request, discovered>>

Call(op, msg, ident, outcome) ==
    [op |-> op, msg |-> msg, ident |-> ident, outcome |-> outcome, reply |-> None]
\* a call of chat or json_chat, with the reply text the backend produced
ExchangeCall(op, msg, out) ==
    [op |-> op, msg |-> msg, ident |-> IntId(0), outcome |-> out.kind, reply |-> out.content]
Ret(raised, value, printed) == [raised |-> raised, value |-> value, printed |-> printed]
Request(model, messages, stream, response_format) ==
    [model |-> model, messages |-> messages, stream |-> stream,
     response_format |-> response_format]
NoIdent == IntId(0)

PrintApiFailed == "API request failed"
PrintNotJson == "reply is not JSON"
PrintConfigMalformed == "config file malformed"
PrintNoServers == "no servers defined"
PrintNoEnv == "API_KEY or BASE_URL not set"

Init ==
    /\ status = "new"
    /\ config = <<>>
    /\ conversation_history = <<>>
    /\ selected_model = <<>>
    /\ client = <<>>
    /\ gen = <<>>
    /\ call = Call("", None, NoIdent, "")
    /\ ret = Ret("", None, "")
    /\ request = <<>>
    /\ discovered = <<>>

\* ------------------------------------------------- configuration resolver
\* self.config[model_config.id] = model_config
DictSet(cfg, mc) ==
    IF \E i \in 1..Len(cfg) : cfg[i].id = mc.id
    THEN [i \in 1..Len(cfg) |-> IF cfg[i].id = mc.id THEN mc ELSE cfg[i]]
    ELSE Append(cfg, mc)

\* variant: a counter per listing instead of the size of the table
NextId_PerListing(cfg, k) == k

\* id=len(self.config) + 1
NextId(cfg, k) == Len(cfg) + 1

\* the loop of _load_models_from_api over the models the listing returned;
\* k is the position of Head(models) in the listing
RECURSIVE load_models_from_api(_, _, _, _, _)
load_models_from_api(cfg, api_key, base_url, models, k) ==
    IF models = <<>> THEN cfg
    ELSE load_models_from_api(
            DictSet(cfg, ModelConfig(Head(models).id, NextId(cfg, k), Head(models).owned_by,
                                     base_url, api_key)),
            api_key, base_url, Tail(models), k + 1)

\* the loop of _load_config_from_file over the servers: stops at the first
\* listing that raises
RECURSIVE load_servers(_, _, _, _)
load_servers(cfg, servers, outs, i) ==
    IF i > Len(servers) THEN [config |-> cfg, raised |-> "", printed |-> ""]
    ELSE LET c == load_models_from_api(cfg, servers[i].api_key, servers[i].api_url,
                                       outs[i].models, 1)
         IN IF outs[i].fails THEN [config |-> c, raised |-> "APIError", printed |-> ""]
            ELSE load_servers(c, servers, outs, i + 1)

\* variant: a resolution that starts from an empty table
load_config_from_file_Replacing(cfg, file, outs) ==
    IF file.state = "ok" /\ file.servers # <<>>
    THEN load_servers(<<>>, file.servers, outs, 1)
    ELSE [config |-> cfg, raised |-> "SystemExit", printed |-> ""]

\* _load_config_from_file: line 44 reads self.config_path, an attribute that
\* is never set, inside the FileNotFoundError handler
load_config_from_file(cfg, file, outs) ==
    IF file.state = "missing" THEN [config |-> cfg, raised |-> "AttributeError", printed |-> ""]
    ELSE IF file.state = "malformed"
    THEN [config |-> cfg, raised |-> "SystemExit", printed |-> PrintConfigMalformed]
    ELSE IF file.servers = <<>>
    THEN [config |-> cfg, raised |-> "SystemExit", printed |-> PrintNoServers]
    ELSE load_servers(cfg, file.servers, outs, 1)

\* _load_config_from_env: also binds self.client to the environment's server
load_config_from_env(cfg, cl, env, out) ==
    IF env.API_KEY = "" \/ env.BASE_URL = ""
    THEN [config |-> cfg, client |-> cl, raised |-> "SystemExit", printed |-> PrintNoEnv]
    ELSE [config |-> load_models_from_api(cfg, env.API_KEY, env.BASE_URL, out.models, 1),
          client |-> <<OpenAI(env.API_KEY, env.BASE_URL)>>,
          raised |-> IF out.fails THEN "APIError" ELSE "",
          printed |-> ""]

\* the models the listings of a resolution returned, in query order then
\* listing order
RECURSIVE ReturnedFrom(_, _, _)
ReturnedFrom(servers, outs, i) ==
    IF i > Len(servers) THEN <<>>
    ELSE [k \in 1..Len(outs[i].models) |->
            [name |-> outs[i].models[k].id, server |-> outs[i].models[k].owned_by,
             url |-> servers[i].api_url, api_key |-> servers[i].api_key]]
         \o (IF outs[i].fails THEN <<>> ELSE ReturnedFrom(servers, outs, i + 1))

ReturnedFile(file, outs) ==
    IF file.state = "ok" THEN ReturnedFrom(file.servers, outs, 1) ELSE <<>>
ReturnedEnv(env, out) ==
    IF env.API_KEY = "" \/ env.BASE_URL = "" THEN <<>>
    ELSE ReturnedFrom(<<[api_key |-> env.API_KEY, api_url |-> env.BASE_URL]>>, <<out>>, 1)

\* ---------------------------------------------------- conversation session
\* model_identifier in (model.id, model.name)
IdentMatches(x, model) ==
    \/ x.t = "int" /\ x.n = model.id
    \/ x.t = "str" /\ x.s = model.name

\* set_model_by_id: the first match in iteration order, or ValueError
Matches(cfg, x) == {i \in 1..Len(cfg) : IdentMatches(x, cfg[i])}
\* variant: the loop keeps going, so the last match wins
PickMatch_Last(S) == CHOOSE i \in S : \A j \in S : i >= j
PickMatch(S) == CHOOSE i \in S : \A j \in S : i <= j
\* variant: the selection changes but the connection is not rebuilt
set_model_by_id_NoRebind(cfg, sel, cl, x) ==
    IF Matches(cfg, x) = {}
    THEN [selected_model |-> sel, client |-> cl, raised |-> "ValueError"]
    ELSE [selected_model |-> <<cfg[PickMatch(Matches(cfg, x))]>>, client |-> cl, raised |-> ""]

\* variant: a failed selection clears the selection
set_model_by_id_Clearing(cfg, sel, cl, x) ==
    IF Matches(cfg, x) = {}
    THEN [selected_model |-> <<>>, client |-> <<>>, raised |-> "ValueError"]
    ELSE LET model == cfg[PickMatch(Matches(cfg, x))] IN
         [selected_model |-> <<model>>,
          client |-> <<OpenAI(model.api_key, model.url)>>,
          raised |-> ""]

set_model_by_id(cfg, sel, cl, x) ==
    IF Matches(cfg, x) = {}
    THEN [selected_model |-> sel, client |-> cl, raised |-> "ValueError"]
    ELSE LET model == cfg[PickMatch(Matches(cfg, x))] IN
         [selected_model |-> <<model>>,
          client |-> <<OpenAI(model.api_key, model.url)>>,
          raised |-> ""]

\* variant: the assistant turn is not recorded
chat_NoAssistant(hist, sel, m, out) ==
    IF sel = <<>>
    THEN [conversation_history |-> hist, ret |-> Ret("ValueError", None, ""), request |-> <<>>]
    ELSE LET h1 == Append(hist, Message("user", m))
             req == <<Request(sel[1].name, h1, FALSE, "")>>
         IN [conversation_history |-> h1,
             ret |-> IF out.kind = "ok" THEN Ret("", out.content, "")
                     ELSE Ret("", None, PrintApiFailed),
             request |-> req]

\* variant: a failed request takes the user turn back
chat_RollBack(hist, sel, m, out) ==
    IF sel = <<>>
    THEN [conversation_history |-> hist, ret |-> Ret("ValueError", None, ""), request |-> <<>>]
    ELSE LET h1 == Append(hist, Message("user", m))
             req == <<Request(sel[1].name, h1, FALSE, "")>>
         IN IF out.kind = "ok"
            THEN [conversation_history |-> Append(h1, Message("assistant", out.content)),
                  ret |-> Ret("", out.content, ""), request |-> req]
            ELSE [conversation_history |-> hist,
                  ret |-> Ret("", None, PrintApiFailed), request |-> req]

\* variant: the user turn is appended before the selection is checked
chat_AppendFirst(hist, sel, m, out) ==
    LET h1 == Append(hist, Message("user", m)) IN
    IF sel = <<>>
    THEN [conversation_history |-> h1, ret |-> Ret("ValueError", None, ""), request |-> <<>>]
    ELSE IF out.kind = "ok"
    THEN [conversation_history |-> Append(h1, Message("assistant", out.content)),
          ret |-> Ret("", out.content, ""),
          request |-> <<Request(sel[1].name, h1, FALSE, "")>>]
    ELSE [conversation_history |-> h1, ret |-> Ret("", None, PrintApiFailed),
          request |-> <<Request(sel[1].name, h1, FALSE, "")>>]

\* chat: the user turn is appended before the request, the assistant turn
\* after a completion whose first choice could be read
chat(hist, sel, m, out) ==
    IF sel = <<>>
    THEN [conversation_history |-> hist, ret |-> Ret("ValueError", None, ""), request |-> <<>>]
    ELSE LET h1 == Append(hist, Message("user", m))
             req == <<Request(sel[1].name, h1, FALSE, "")>>
         IN IF out.kind = "ok"
            THEN [conversation_history |-> Append(h1, Message("assistant", out.content)),
                  ret |-> Ret("", out.content, ""), request |-> req]
            ELSE [conversation_history |-> h1,
                  ret |-> Ret("", None, PrintApiFailed), request |-> req]

\* variant: the assistant turn is recorded only after the reply has parsed
json_chat_ParseFirst(hist, sel, m, out) ==
    IF sel = <<>>
    THEN [conversation_history |-> hist, ret |-> Ret("ValueError", None, ""), request |-> <<>>]
    ELSE LET h1 == Append(hist, Message("user", m))
             req == <<Request(sel[1].name, h1, FALSE, "json_object")>>
             parsed == json_loads(out.content)
         IN IF out.kind = "ok" /\ parsed.raised = ""
            THEN [conversation_history |-> Append(h1, Message("assistant", out.content)),
                  ret |-> Ret("", parsed.val, ""), request |-> req]
            ELSE [conversation_history |-> h1,
                  ret |-> IF out.exc = "JSONDecodeError"
                             \/ (out.kind = "ok" /\ parsed.raised = "JSONDecodeError")
                          THEN Ret("", EmptyDict, PrintNotJson)
                          ELSE Ret("", None, PrintApiFailed),
                  request |-> req]

\* json_chat: as chat, then json.loads on the reply; a JSONDecodeError from
\* anywhere in the try block gives {}, any other exception gives None
json_chat(hist, sel, m, out) ==
    IF sel = <<>>
    THEN [conversation_history |-> hist, ret |-> Ret("ValueError", None, ""), request |-> <<>>]
    ELSE LET h1 == Append(hist, Message("user", m))
             req == <<Request(sel[1].name, h1, FALSE, "json_object")>>
         IN IF out.kind = "ok"
            THEN LET parsed == json_loads(out.content) IN
                 [conversation_history |-> Append(h1, Message("assistant", out.content)),
                  ret |-> IF parsed.raised = "" THEN Ret("", parsed.val, "")
                          ELSE IF parsed.raised = "JSONDecodeError"
                          THEN Ret("", EmptyDict, PrintNotJson)
                          ELSE Ret("", None, PrintApiFailed),
                  request |-> req]
            ELSE [conversation_history |-> h1,
                  ret |-> IF out.exc = "JSONDecodeError"
                          THEN Ret("", EmptyDict, PrintNotJson)
                          ELSE Ret("", None, PrintApiFailed),
                  request |-> req]

\* stream_chat is a generator function: the call runs none of its body and
\* returns a generator suspended before line 151
Generator(m, hist, sel) ==
    [state |-> "created", msg |-> m, chunks |-> <<>>, pos |-> 0, fails |-> FALSE,
     start |-> "pending", yielded |-> <<>>,
     clean |-> TRUE, hist_at_call |-> hist, sel_at_call |-> sel # <<>>]

\* variant: the fragments are recorded as an assistant turn when the stream ends
stream_resume_Recording(g, hist, req) ==
    IF g.pos < Len(g.chunks)
    THEN [gen |-> [g EXCEPT !.state = "running", !.pos = g.pos + 1],
          conversation_history |-> hist,
          ret |-> Ret("", g.chunks[g.pos + 1], ""), request |-> req]
    ELSE [gen |-> [g EXCEPT !.state = "done"],
          conversation_history |-> Append(hist, Message("assistant", None)),
          ret |-> Ret("StopIteration", None, IF g.fails THEN PrintApiFailed ELSE ""),
          request |-> req]

\* variant: no except clause, the failure of the stream reaches the consumer
stream_resume_Raising(g, hist, req) ==
    IF g.pos < Len(g.chunks)
    THEN [gen |-> [g EXCEPT !.state = "running", !.pos = g.pos + 1],
          conversation_history |-> hist,
          ret |-> Ret("", g.chunks[g.pos + 1], ""), request |-> req]
    ELSE [gen |-> [g EXCEPT !.state = "done"],
          conversation_history |-> hist,
          ret |-> IF g.fails THEN Ret("APIError", None, "") ELSE Ret("StopIteration", None, ""),
          request |-> req]

\* the loop of lines 162-163 from position g.pos of the stream
stream_resume(g, hist, req) ==
    IF g.pos < Len(g.chunks)
    THEN [gen |-> [g EXCEPT !.state = "running", !.pos = g.pos + 1],
          conversation_history |-> hist,
          ret |-> Ret("", g.chunks[g.pos + 1], ""), request |-> req]
    ELSE [gen |-> [g EXCEPT !.state = "done"],
          conversation_history |-> hist,
          ret |-> Ret("StopIteration", None, IF g.fails THEN PrintApiFailed ELSE ""),
          request |-> req]

\* variant: the request carries the transcript without the new user turn
stream_start_StaleRequest(g, hist, sel, out) ==
    IF sel = <<>>
    THEN [gen |-> [g EXCEPT !.state = "done", !.start = "no_model"],
          conversation_history |-> hist,
          ret |-> Ret("ValueError", None, ""), request |-> <<>>]
    ELSE LET h1 == Append(hist, Message("user", g.msg))
             req == <<Request(sel[1].name, hist, TRUE, "")>>
         IN IF ~out.start
            THEN [gen |-> [g EXCEPT !.state = "done", !.start = "failed"],
                  conversation_history |-> h1,
                  ret |-> Ret("StopIteration", None, PrintApiFailed), request |-> req]
            ELSE stream_resume([g EXCEPT !.chunks = out.chunks, !.fails = out.fails,
                                         !.start = "ok"], h1, req)

\* the first next() on the generator: lines 151-163 up to the first yield
stream_start(g, hist, sel, out) ==
    IF sel = <<>>
    THEN [gen |-> [g EXCEPT !.state = "done", !.start = "no_model"],
          conversation_history |-> hist,
          ret |-> Ret("ValueError", None, ""), request |-> <<>>]
    ELSE LET h1 == Append(hist, Message("user", g.msg))
             req == <<Request(sel[1].name, h1, TRUE, "")>>
         IN IF ~out.start
            THEN [gen |-> [g EXCEPT !.state = "done", !.start = "failed"],
                  conversation_history |-> h1,
                  ret |-> Ret("StopIteration", None, PrintApiFailed), request |-> req]
            ELSE stream_resume([g EXCEPT !.chunks = out.chunks, !.fails = out.fails,
                                         !.start = "ok"], h1, req)

\* what another operation of the session does to the bookkeeping of the
\* generator: it is no longer "not interleaved"
Touch(g) ==
    IF g = <<>> THEN g ELSE <<[g[1] EXCEPT !.clean = FALSE, !.hist_at_call = <<>>]>>

\* ----------------------------------------------------------------- actions
\* ChatClient(config_path): resolution, then set_model_by_id(1)
DefaultModelId_Second == 1 + 1
DefaultModelId == 1

Construct(loaded, returned) ==
    /\ discovered' = discovered \o returned
    /\ config' = loaded.config
    /\ IF loaded.raised = ""
       THEN LET s == IF loaded.config # <<>>
                     THEN set_model_by_id(loaded.config, <<>>, loaded.client, IntId(DefaultModelId))
                     ELSE [selected_model |-> <<>>, client |-> loaded.client, raised |-> ""]
            IN /\ selected_model' = s.selected_model
               /\ client' = s.client
               /\ status' = IF s.raised = "" THEN "ready" ELSE "raised"
               /\ ret' = Ret(s.raised, None, "")
       ELSE /\ selected_model' = <<>>
            /\ client' = loaded.client
            /\ status' = IF loaded.raised = "SystemExit" THEN "exited" ELSE "raised"
            /\ ret' = Ret(loaded.raised, None, loaded.printed)
    /\ UNCHANGED <<conversation_history, gen, request>>

InitFromFile ==
    /\ status = "new"
    /\ \E file \in Files : \E outs \in [1..Len(file.servers) -> ListOutcomes] :
         /\ call' = Call("__init__", None, NoIdent, file.state)
         /\ Construct(load_config_from_file(<<>>, file, outs) @@ [client |-> <<>>],
                      ReturnedFile(file, outs))

InitFromEnv ==
    /\ status = "new"
    /\ \E env \in Envs : \E out \in ListOutcomes :
         /\ call' = Call("__init__", None, NoIdent, "env")
         /\ Construct(load_config_from_env(<<>>, <<>>, env, out), ReturnedEnv(env, out))

\* a further resolution on the constructed session
Reload(loaded, returned) ==
    /\ Len(config) + Len(returned) <= MaxModels
    /\ discovered' = discovered \o returned
    /\ config' = loaded.config
    /\ client' = loaded.client
    /\ status' = IF loaded.raised = "SystemExit" THEN "exited" ELSE "ready"
    /\ ret' = Ret(loaded.raised, None, loaded.printed)
    /\ gen' = Touch(gen)
    /\ request' = <<>>
    /\ UNCHANGED <<conversation_history, selected_model>>

ReloadFromFile ==
    /\ status = "ready"
    /\ \E file \in Files : \E outs \in [1..Len(file.servers) -> ListOutcomes] :
         /\ call' = Call("_load_config_from_file", None, NoIdent, file.state)
         /\ Reload(load_config_from_file(config, file, outs) @@ [client |-> client],
                   ReturnedFile(file, outs))

ReloadFromEnv ==
    /\ status = "ready"
    /\ \E env \in Envs : \E out \in ListOutcomes :
         /\ call' = Call("_load_config_from_env", None, NoIdent, "env")
         /\ Reload(load_config_from_env(config, client, env, out), ReturnedEnv(env, out))

\* variant: switching the model starts a new conversation
SetModelById_Resetting ==
    /\ status = "ready"
    /\ \E x \in Idents :
         LET s == set_model_by_id(config, selected_model, client, x) IN
         /\ call' = Call("set_model_by_id", None, x, "")
         /\ selected_model' = s.selected_model
         /\ client' = s.client
         /\ ret' = Ret(s.raised, None, "")
         /\ conversation_history' = IF s.raised = "" THEN <<>> ELSE conversation_history
    /\ gen' = Touch(gen)
    /\ request' = <<>>
    /\ UNCHANGED <<status, config, discovered>>

SetModelById ==
    /\ status = "ready"
    /\ \E x \in Idents :
         LET s == set_model_by_id(config, selected_model, client, x) IN
         /\ call' = Call("set_model_by_id", None, x, "")
         /\ selected_model' = s.selected_model
         /\ client' = s.client
         /\ ret' = Ret(s.raised, None, "")
    /\ gen' = Touch(gen)
    /\ request' = <<>>
    /\ UNCHANGED <<status, config, conversation_history, discovered>>

Exchange(r) ==
    /\ Len(r.conversation_history) <= MaxHistory
    /\ conversation_history' = r.conversation_history
    /\ ret' = r.ret
    /\ request' = r.request
    /\ gen' = Touch(gen)
    /\ UNCHANGED <<status, config, selected_model, client, discovered>>

Chat ==
    /\ status = "ready"
    /\ \E m \in Messages : \E out \in ChatOutcomes :
         /\ call' = ExchangeCall("chat", m, out)
         /\ Exchange(chat(conversation_history, selected_model, m, out))

JsonChat ==
    /\ status = "ready"
    /\ \E m \in Messages : \E out \in ChatOutcomes :
         /\ call' = ExchangeCall("json_chat", m, out)
         /\ Exchange(json_chat(conversation_history, selected_model, m, out))

StreamChat ==
    /\ status = "ready"
    /\ \E m \in Messages :
         /\ call' = Call("stream_chat", m, NoIdent, "")
         /\ gen' = <<Generator(m, conversation_history, selected_model)>>
    /\ ret' = Ret("", [t |-> "generator", v |-> <<>>], "")
    /\ request' = <<>>
    /\ UNCHANGED <<status, config, conversation_history, selected_model, client, discovered>>

\* next(generator)
StreamNext ==
    /\ status = "ready"
    /\ gen # <<>>
    /\ \E out \in StreamOutcomes :
         LET g == gen[1]
             r == IF g.state = "created"
                  THEN stream_start(g, conversation_history, selected_model, out)
                  ELSE IF g.state = "running"
                  THEN stream_resume(g, conversation_history, <<>>)
                  ELSE [gen |-> g, conversation_history |-> conversation_history,
                        ret |-> Ret("StopIteration", None, ""), request |-> <<>>]
         IN /\ Len(r.conversation_history) <= MaxHistory
            /\ call' = Call("next", g.msg, NoIdent, g.state)
            /\ gen' = <<[r.gen EXCEPT !.yielded =
                                    IF r.ret.raised = "" THEN Append(@, r.ret.value) ELSE @]>>
            /\ conversation_history' = r.conversation_history
            /\ ret' = r.ret
            /\ request' = r.request
    /\ UNCHANGED <<status, config, selected_model, client, discovered>>

\* variant: a reset that keeps the system turns
chat_cleanup_KeepSystem(hist) == SelectSeq(hist, LAMBDA msg : msg.role = "system")

\* chat_cleanup: self.conversation_history = []
chat_cleanup(hist) == <<>>

ChatCleanup ==
    /\ status = "ready"
    /\ call' = Call("chat_cleanup", None, NoIdent, "")
    /\ conversation_history' = chat_cleanup(conversation_history)
    /\ ret' = Ret("", None, "")
    /\ gen' = Touch(gen)
    /\ request' = <<>>
    /\ UNCHANGED <<status, config, selected_model, client, discovered>>

GetHistory ==
    /\ status = "ready"
    /\ call' = Call("get_history", None, NoIdent, "")
    /\ ret' = Ret("", PyList(conversation_history), "")
    /\ gen' = Touch(gen)
    /\ request' = <<>>
    /\ UNCHANGED <<status, config, conversation_history, selected_model, client, discovered>>

append_history(hist, role, content) == Append(hist, Message(role, content))
\* variant: the system turn is put in front of the transcript
set_system_prompt_Prepend(hist, content) == <<Message("system", content)>> \o hist
set_system_prompt(hist, content) == Append(hist, Message("system", content))

AppendHistory ==
    /\ status = "ready"
    /\ Len(conversation_history) < MaxHistory
    /\ \E role \in Roles : \E content \in Prompts :
         /\ call' = Call("append_history", content, NoIdent, role)
         /\ conversation_history' = append_history(conversation_history, role, content)
    /\ ret' = Ret("", None, "")
    /\ gen' = Touch(gen)
    /\ request' = <<>>
    /\ UNCHANGED <<status, config, selected_model, client, discovered>>

SetSystemPrompt ==
    /\ status = "ready"
    /\ Len(conversation_history) < MaxHistory
    /\ \E content \in Prompts :
         /\ call' = Call("set_system_prompt", content, NoIdent, "")
         /\ conversation_history' = set_system_prompt(conversation_history, content)
    /\ ret' = Ret("", None, "")
    /\ gen' = Touch(gen)
    /\ request' = <<>>
    /\ UNCHANGED <<status, config, selected_model, client, discovered>>

Next ==
    \/ InitFromFile
    \/ InitFromEnv
    \/ SetModelById
    \/ Chat
    \/ JsonChat
    \/ StreamChat
    \/ StreamNext
    \/ ChatCleanup
    \/ GetHistory
    \/ AppendHistory
    \/ SetSystemPrompt

\* the session: construction, then the operations of the public interface
Spec == Init /\ [][Next]_vars

\* the resolver: construction, further resolutions on the same object, and
\* selection
NextResolve ==
    \/ InitFromFile
    \/ InitFromEnv
    \/ ReloadFromFile
    \/ ReloadFromEnv
    \/ SetModelById

SpecResolve == Init /\ [][NextResolve]_vars


\* ------------------------------------------------------------------ claims
Last(h) == h[Len(h)]
ReloadOps == {"_load_config_from_file", "_load_config_from_env"}

\* C1: when chat(m) succeeds with reply r and a model is selected, the
\* transcript afterwards is the transcript before, then {user, m}, then
\* {assistant, r}, and the call returns r.
C1_ChatSuccess ==
    [][(call'.op = "chat" /\ call'.outcome = "ok" /\ selected_model # <<>>) =>
         /\ conversation_history' =
              conversation_history \o <<[role |-> "user", content |-> call'.msg],
                                        [role |-> "assistant", content |-> call'.reply]>>
         /\ ret'.raised = ""
         /\ ret'.value = call'.reply]_vars

C1_Witness ==
    /\ call.op = "chat" /\ call.outcome = "ok" /\ ret.raised = ""
    /\ Len(conversation_history) = 3
    /\ conversation_history[1].content # call.msg
    /\ conversation_history[3].content.t = "str"

\* C2 (as claimed): right after stream_chat(m) is invoked with a model
\* selected, before any pull, the transcript ends with {user, m}.
C2_AppendedAtInvocation ==
    (call.op = "stream_chat" /\ selected_model # <<>>) =>
        /\ conversation_history # <<>>
        /\ Last(conversation_history) = [role |-> "user", content |-> call.msg]

\* C3: when the request of chat or json_chat fails with a model selected,
\* the transcript grows by the user turn only, nothing is raised and the
\* result is None or {}.
C3_FailedExchange ==
    [][(call'.op \in {"chat", "json_chat"} /\ call'.outcome # "ok" /\ selected_model # <<>>) =>
         /\ conversation_history' =
              Append(conversation_history, [role |-> "user", content |-> call'.msg])
         /\ ret'.raised = ""
         /\ ret'.value.t \in {"None", "dict"}
         /\ ret'.value.v = <<>>
         /\ ret'.printed # ""]_vars

C3_Witness ==
    /\ call.op = "chat" /\ call.outcome = "raise" /\ ret.raised = ""
    /\ Len(conversation_history) = 2
    /\ Last(conversation_history).role = "user"

\* C4: once a stream_chat(m) generator invoked with a model selected has
\* been drained with no other operation interleaved, the transcript is the
\* transcript at the invocation followed by {user, m}, whatever the stream did.
C4_DrainedStream ==
    (gen # <<>> /\ gen[1].state = "done" /\ gen[1].clean /\ gen[1].sel_at_call) =>
        conversation_history =
            Append(gen[1].hist_at_call, [role |-> "user", content |-> gen[1].msg])

C4_Witness ==
    /\ gen # <<>> /\ gen[1].state = "done" /\ gen[1].clean /\ gen[1].sel_at_call
    /\ gen[1].pos = 2 /\ gen[1].fails
    /\ Len(gen[1].hist_at_call) = 1

\* C5: when the request of json_chat succeeds with reply text r and a model
\* is selected, the user turn and then one assistant turn holding r are
\* appended whether or not r parses; for the unterminated text the call
\* prints the parse failure and returns {} without raising.
C5_StructuredReply ==
    [][(call'.op = "json_chat" /\ call'.outcome = "ok" /\ selected_model # <<>>
        /\ call'.reply.t = "str") =>
         /\ conversation_history' =
              conversation_history \o <<[role |-> "user", content |-> call'.msg],
                                        [role |-> "assistant", content |-> call'.reply]>>
         /\ ret'.raised = ""
         /\ (call'.reply.v = TxtOpen => ret' = Ret("", EmptyDict, PrintNotJson))
         /\ (call'.reply.v = TxtObj =>
               ret' = Ret("", PyDict(<< <<<<"a">>, PyInt(1)>> >>), ""))]_vars

C5_Witness ==
    /\ call.op = "json_chat" /\ call.outcome = "ok"
    /\ call.reply = Str(TxtOpen)
    /\ ret = Ret("", EmptyDict, PrintNotJson)
    /\ Len(conversation_history) = 3
    /\ Last(conversation_history) = [role |-> "assistant", content |-> Str(TxtOpen)]

\* C6: set_model_by_id(x) with x equal to no id and no name of the table
\* raises ValueError and leaves selected_model, client, config and the
\* transcript as they were.
C6_ModelNotFound ==
    [][(call'.op = "set_model_by_id"
        /\ \A i \in 1..Len(config) :
             /\ ~(call'.ident.t = "int" /\ call'.ident.n = config[i].id)
             /\ ~(call'.ident.t = "str" /\ call'.ident.s = config[i].name)) =>
         /\ ret'.raised = "ValueError"
         /\ selected_model' = selected_model
         /\ client' = client
         /\ config' = config
         /\ conversation_history' = conversation_history]_vars

C6_Witness ==
    /\ call.op = "set_model_by_id" /\ ret.raised = "ValueError"
    /\ call.ident.t = "str"
    /\ selected_model # <<>> /\ selected_model[1].id = 2
    /\ conversation_history # <<>>

\* C7: the keys of the table are 1..N without gaps or collisions, N the
\* number of models the listings returned, and key k holds the k-th model
\* returned, with id k and the url and api_key of the server that listed it.
C7_ContiguousKeys ==
    /\ Len(config) = Len(discovered)
    /\ \A i, j \in 1..Len(config) : config[i].id = config[j].id => i = j
    /\ \A k \in 1..Len(discovered) :
         \E i \in 1..Len(config) :
            config[i] = [name |-> discovered[k].name, id |-> k,
                         server |-> discovered[k].server,
                         url |-> discovered[k].url, api_key |-> discovered[k].api_key]

C7_Witness ==
    /\ call.op = "__init__" /\ status = "ready"
    /\ Len(discovered) = 3
    /\ discovered[1].url = "u1" /\ discovered[2].url = "u2" /\ discovered[3].url = "u2"
    /\ discovered[1].name = discovered[2].name

\* C8 (as claimed): a further resolution that completes leaves strictly
\* more entries than before, the previous ones unchanged.
C8_StrictlyMore ==
    [][(call'.op \in ReloadOps /\ ret'.raised = "") =>
         /\ Len(config') > Len(config)
         /\ \A i \in 1..Len(config) : config'[i] = config[i]]_vars

\* C8 (amended): a further resolution adds exactly one entry per model its
\* listings return, so never fewer entries and strictly more when a model
\* is returned, and every previous identifier keeps its descriptor.
C8_Additive ==
    [][(call'.op \in ReloadOps) =>
         /\ Len(config') = Len(config) + (Len(discovered') - Len(discovered))
         /\ Len(config') >= Len(config)
         /\ \A i \in 1..Len(config) :
              \E j \in 1..Len(config') : config'[j] = config[i] /\ config'[j].id = config[i].id
         /\ \A j \in 1..Len(config') :
              (\E i \in 1..Len(config) : config[i].id = config'[j].id) =>
              (\E i \in 1..Len(config) : config[i] = config'[j])]_vars

C8_Witness ==
    /\ call.op = "_load_config_from_file" /\ ret.raised = ""
    /\ Len(config) = 3
    /\ config[1].url = "u1" /\ config[2].url = "u2" /\ config[3].url = "u1"

\* C9: when construction finishes, the model with id 1 is selected and the
\* connection bound to its url and api_key if the listings returned a model,
\* and no model is selected if they returned none.
C9_DefaultSelection ==
    (call.op = "__init__" /\ status = "ready") =>
        IF discovered # <<>>
        THEN /\ selected_model # <<>>
             /\ selected_model[1].id = 1
             /\ selected_model[1].name = discovered[1].name
             /\ selected_model[1].url = discovered[1].url
             /\ \E i \in 1..Len(config) : config[i] = selected_model[1]
             /\ client = <<[api_key |-> discovered[1].api_key, base_url |-> discovered[1].url]>>
        ELSE selected_model = <<>>

C9_Witness ==
    /\ call.op = "__init__" /\ status = "ready"
    /\ Len(config) = 4
    /\ selected_model # <<>> /\ selected_model[1].id = 1

\* C10: chat and json_chat called with no model selected raise ValueError,
\* issue no request and leave the transcript unchanged.
C10_NoModelSelected ==
    [][(call'.op \in {"chat", "json_chat"} /\ selected_model = <<>>) =>
         /\ ret'.raised = "ValueError"
         /\ request' = <<>>
         /\ conversation_history' = conversation_history]_vars

C10_Witness ==
    /\ call.op = "json_chat" /\ ret.raised = "ValueError"
    /\ selected_model = <<>>
    /\ Len(conversation_history) = 2


\* C11 (as claimed): stream_chat called with no model selected raises
\* ValueError from the call itself and hands out no generator.
C11_StreamFailsAtInvocation ==
    (call.op = "stream_chat" /\ selected_model = <<>>) =>
        /\ ret.raised = "ValueError"
        /\ ret.value.t # "generator"

\* C12: chat_cleanup leaves an empty transcript, so that a get_history
\* right after it returns an empty list, and leaves selected_model, client
\* and config as they were.
C12_Reset ==
    [][/\ (call'.op = "chat_cleanup" =>
             /\ conversation_history' = <<>>
             /\ selected_model' = selected_model
             /\ client' = client
             /\ config' = config)
       /\ ((call.op = "chat_cleanup" /\ call'.op = "get_history") =>
             /\ ret'.raised = ""
             /\ ret'.value.t = "list"
             /\ ret'.value.v = <<>>)]_vars

C12_Witness ==
    /\ call.op = "chat_cleanup"
    /\ conversation_history = <<>>
    /\ selected_model # <<>> /\ selected_model[1].id = 2
    /\ gen # <<>> /\ gen[1].state = "running" /\ gen[1].start = "ok"

\* C13 (as claimed): a resolution from a path that does not exist prints the
\* error and leaves through exit(1), with no listing requested and no model
\* selected.
C13_ConfigNotFoundExits ==
    (call.op = "__init__" /\ call.outcome = "missing") =>
        /\ status = "exited"
        /\ ret.raised = "SystemExit"
        /\ ret.printed # ""
        /\ discovered = <<>>
        /\ selected_model = <<>>


IsPrefix(a, b) == Len(a) <= Len(b) /\ \A i \in 1..Len(a) : a[i] = b[i]

\* C14: whenever chat, json_chat or the first pull of a stream_chat
\* generator issues a request, its messages are the transcript of that
\* moment - the transcript before the step followed by the user turn of
\* this exchange - whatever ran between the stream_chat call and the pull.
C14_RequestCarriesTranscript ==
    [][(request' # <<>>) =>
         /\ call'.op \in {"chat", "json_chat", "next"}
         /\ request'[1].messages =
              Append(conversation_history, [role |-> "user", content |-> call'.msg])
         /\ IsPrefix(request'[1].messages, conversation_history')
         /\ request'[1].stream = (call'.op = "next")]_vars

C14_Witness ==
    /\ call.op = "next" /\ call.outcome = "created"
    /\ request # <<>> /\ request[1].stream
    /\ gen[1].clean = FALSE
    /\ Len(request[1].messages) = 2
    /\ request[1].messages[1].role = "system"
    /\ request[1].messages = conversation_history

\* C15: every step of an operation other than chat_cleanup leaves the
\* transcript it found as a prefix of the transcript it leaves.
C15_AppendOnly ==
    [][(call'.op # "chat_cleanup") =>
         IsPrefix(conversation_history, conversation_history')]_vars

C15_Witness ==
    /\ call.op = "set_system_prompt"
    /\ Len(conversation_history) = 3
    /\ conversation_history[1].role = "user"
    /\ conversation_history[2].role = "assistant"
    /\ conversation_history[3].role = "system"

\* C16: a set_model_by_id that finds a match changes selected_model and
\* client only: the transcript and config are left as they were.
C16_SelectKeepsTranscript ==
    [][(call'.op = "set_model_by_id" /\ ret'.raised = "") =>
         /\ conversation_history' = conversation_history
         /\ config' = config
         /\ status' = status
         /\ selected_model' # <<>>]_vars

C16_Witness ==
    /\ call.op = "set_model_by_id" /\ ret.raised = ""
    /\ selected_model # <<>> /\ selected_model[1].id = 3
    /\ client = <<[api_key |-> "k2", base_url |-> "u2"]>>
    /\ Len(conversation_history) = 2


\* C17: a set_model_by_id(x) that succeeds binds the first descriptor in
\* iteration order whose id or name equals x: for a name several servers
\* list, the one with the lowest id; for an integer k, the descriptor
\* stored under key k.
C17_FirstMatchWins ==
    (call.op = "set_model_by_id" /\ ret.raised = "") =>
        /\ selected_model # <<>>
        /\ \E i \in 1..Len(config) :
             /\ config[i] = selected_model[1]
             /\ \/ call.ident.t = "int" /\ config[i].id = call.ident.n
                \/ call.ident.t = "str" /\ config[i].name = call.ident.s
             /\ \A j \in 1..Len(config) :
                  (\/ call.ident.t = "int" /\ config[j].id = call.ident.n
                   \/ call.ident.t = "str" /\ config[j].name = call.ident.s)
                  => (i <= j /\ config[i].id <= config[j].id)
        /\ call.ident.t = "int" => selected_model[1].id = call.ident.n

C17_Witness ==
    /\ call.op = "set_model_by_id" /\ ret.raised = ""
    /\ call.ident = NameId("gpt-a")
    /\ selected_model # <<>> /\ selected_model[1].id = 1
    /\ Len(config) = 3
    /\ config[3].name = "gpt-a" /\ config[3].url = "u2"

\* C18: whenever a model is selected, the connection is bound to the url
\* and the api_key of that model, after any sequence of construction,
\* set_model_by_id (found or not), exchanges and resets.
C18_ConnectionFollowsSelection ==
    (selected_model # <<>>) =>
        client = <<[api_key |-> selected_model[1].api_key,
                    base_url |-> selected_model[1].url]>>

C18_Witness ==
    /\ call.op = "set_model_by_id" /\ ret.raised = "ValueError"
    /\ selected_model # <<>> /\ selected_model[1].url = "u2"
    /\ client = <<[api_key |-> "k2", base_url |-> "u2"]>>
    /\ conversation_history # <<>>

\* C19: at every pull of a stream_chat generator whose request was issued,
\* the fragments yielded so far are a prefix of the fragments the backend
\* produced; a request that fails to start yields nothing; a stream that
\* fails ends the generator with StopIteration and no exception, and an
\* ended generator yields nothing more.
C19_YieldedIsPrefix ==
    [][(call'.op = "next" /\ gen'[1].start \in {"ok", "failed"}) =>
         /\ IsPrefix(gen'[1].yielded, gen'[1].chunks)
         /\ ret'.raised \in {"", "StopIteration"}
         /\ (ret'.raised = "" =>
               /\ Len(gen'[1].yielded) = Len(gen[1].yielded) + 1
               /\ ret'.value = gen'[1].chunks[Len(gen'[1].yielded)])
         /\ (ret'.raised = "StopIteration" =>
               /\ gen'[1].state = "done"
               /\ gen'[1].yielded = gen[1].yielded)
         /\ (gen'[1].start = "failed" => gen'[1].yielded = <<>>)
         /\ (gen[1].state = "done" => ret'.raised = "StopIteration")]_vars

C19_Witness ==
    /\ call.op = "next" /\ ret.raised = "StopIteration" /\ ret.printed = PrintApiFailed
    /\ gen # <<>> /\ gen[1].state = "done" /\ gen[1].start = "ok" /\ gen[1].fails
    /\ Len(gen[1].yielded) = 2
    /\ gen[1].yielded = gen[1].chunks

\* C20: selected_model is None or one of the values of config, and once a
\* model is selected no step leaves selected_model None.
C20_SelectionStays ==
    [][/\ (selected_model' # <<>> =>
             \E i \in 1..Len(config') : config'[i] = selected_model'[1])
       /\ (selected_model # <<>> => selected_model' # <<>>)]_vars

C20_Witness ==
    /\ call.op = "chat" /\ call.outcome = "raise"
    /\ selected_model # <<>> /\ selected_model[1].id = 4
    /\ \E i \in 1..Len(config) : config[i] = selected_model[1]

====
